---- MODULE Spec2Model ----
(***************************************************************************)
(* Model of annaena_bot_notify.py: the webhook-to-notification pipeline    *)
(* (webhook_handler, parse_form_data, store_submission), the command and   *)
(* button handlers, and startup (main, init_db).                           *)
(*                                                                         *)
(* Handlers are coroutines: a handler runs without interruption up to its  *)
(* next await, so each action below is one such segment.  A Telegram call  *)
(* is recorded in the task's call log when it is issued (res "pending")    *)
(* and resolved by a later action to "ok" or "fail".                       *)
(***************************************************************************)
EXTENDS Integers, Sequences, FiniteSets, TLC

\* ------------------------------------------------------------------ bounds
\* The application is built with the framework's defaults (line 206), under
\* which an update is processed to its end before the next one is taken:
\* one handler is in flight.  With NumTasks above 1 the handlers of
\* different updates overlap and interleave at their awaits.
NumTasks == 1      \* handler coroutines that may be in flight together
MaxEvents == 2     \* updates delivered, over all runs of the process

Tasks == 1..NumTasks

\* ------------------------------------------------- message text as tokens
\* A message text is a sequence of lexical tokens [k, s, d]: k the token
\* class, s the string of a string literal or the digits of a number
\* literal, d the number of digits of a number literal.
Tok(k, s, d) == [k |-> k, s |-> s, d |-> d]
LBrace == Tok("{", "", 0)
RBrace == Tok("}", "", 0)
LBrack == Tok("[", "", 0)
RBrack == Tok("]", "", 0)
Colon == Tok(":", "", 0)
Comma == Tok(",", "", 0)
StrTok(s) == Tok("str", s, 0)
NumTok(s, d) == Tok("num", s, d)
NullTok == Tok("null", "", 0)
TrueTok == Tok("true", "", 0)
BareTok(s) == Tok("bare", s, 0)

\* ------------------------------------------------------- Python values
\* A value is [t, s, d, m]: t the Python type, s the text of a str or the
\* digits of an int, d the digit count of an int or the length of a list,
\* m the mapping of a dict (keys to values), <<>> for every other type.
Val(t, s, d) == [t |-> t, s |-> s, d |-> d, m |-> <<>>]
PyStr(s) == Val("str", s, 0)
PyInt(s, d) == Val("int", s, d)
PyNone == Val("NoneType", "None", 0)
PyTrue == Val("bool", "True", 0)
PyList(n) == Val("list", "", n)
PyDict(m) == [t |-> "dict", s |-> "", d |-> 0, m |-> m]

\* ------------------------------------------------------------ json.loads
\* Recursive-descent decoder over the token sequence.  A parse step gives
\* [ok, v, rest]: whether a value was read, the value, the unread tokens.
ParseOk(v, rest) == [ok |-> TRUE, v |-> v, rest |-> rest]
ParseFail == [ok |-> FALSE, v |-> PyNone, rest |-> <<>>]

RECURSIVE ParseValue(_), ParseElems(_, _), ParseMembers(_, _)

ParseValue(toks) ==
    IF toks = <<>> THEN ParseFail
    ELSE LET h == Head(toks)
             r == Tail(toks)
         IN CASE h.k = "str" -> ParseOk(PyStr(h.s), r)
              [] h.k = "num" -> ParseOk(PyInt(h.s, h.d), r)
              [] h.k = "null" -> ParseOk(PyNone, r)
              [] h.k = "true" -> ParseOk(PyTrue, r)
              [] h.k = "[" -> IF r # <<>> /\ Head(r).k = "]"
                              THEN ParseOk(PyList(0), Tail(r))
                              ELSE ParseElems(r, 0)
              [] h.k = "{" -> IF r # <<>> /\ Head(r).k = "}"
                              THEN ParseOk(PyDict(<<>>), Tail(r))
                              ELSE ParseMembers(r, <<>>)
              [] OTHER -> ParseFail

\* elements of an array after "[" or ","; n elements were read so far
ParseElems(toks, n) ==
    LET e == ParseValue(toks)
    IN IF ~e.ok \/ e.rest = <<>> THEN ParseFail
       ELSE CASE Head(e.rest).k = "," -> ParseElems(Tail(e.rest), n + 1)
              [] Head(e.rest).k = "]" -> ParseOk(PyList(n + 1), Tail(e.rest))
              [] OTHER -> ParseFail

\* members of an object after "{" or ","; m holds the members read so far
\* (a repeated key keeps its last value, as a Python dict does)
ParseMembers(toks, m) ==
    IF Len(toks) < 3 \/ toks[1].k # "str" \/ toks[2].k # ":" THEN ParseFail
    ELSE LET key == toks[1].s
             e == ParseValue(SubSeq(toks, 3, Len(toks)))
             m2 == [k \in DOMAIN m \cup {key} |-> IF k = key THEN e.v ELSE m[k]]
         IN IF ~e.ok \/ e.rest = <<>> THEN ParseFail
            ELSE CASE Head(e.rest).k = "," -> ParseMembers(Tail(e.rest), m2)
                   [] Head(e.rest).k = "}" -> ParseOk(PyDict(m2), Tail(e.rest))
                   [] OTHER -> ParseFail

\* json.loads(text): [ok, v]; ok = FALSE stands for json.JSONDecodeError
\* (no value, an unexpected token, or data after the value)
JsonLoads(text) ==
    LET p == ParseValue(text)
    IN IF p.ok /\ p.rest = <<>> THEN [ok |-> TRUE, v |-> p.v]
       ELSE [ok |-> FALSE, v |-> PyNone]

\* --------------------------------------------------------- parse_form_data
fields == <<"name", "email", "phone", "course_interest">>
Fields == {fields[i] : i \in 1..Len(fields)}
NotProvided == PyStr("Not provided")

\* data.get exists only on a dict; on any other value `data.get` raises
\* AttributeError
HasGet(data) == data.t = "dict"

\* (variant: `data.get(field) or 'Not provided'`, which also replaces a
\* present null by the default)
parse_form_data_or_default(data) ==
    [field \in Fields |->
        IF field \in DOMAIN data.m /\ data.m[field].t # "NoneType"
        THEN data.m[field] ELSE NotProvided]

parse_form_data(data) ==
    [field \in Fields |->
        IF field \in DOMAIN data.m THEN data.m[field] ELSE NotProvided]

\* ------------------------------------------------------------- the inputs
\* the texts a message may carry
TextEmpty == <<>>
TextNotJson == <<BareTok("not-json")>>
TextTruncated == <<LBrace, StrTok("name"), Colon>>
TextExtraData == <<LBrace, RBrace, BareTok("x")>>
TextArray == <<LBrack, NumTok("1", 1), Comma, NumTok("2", 1), RBrack>>
TextNull == <<NullTok>>
TextJo == <<LBrace, StrTok("name"), Colon, StrTok("Jo"), Comma,
            StrTok("email"), Colon, StrTok("jo@x.com"), RBrace>>
TextExtraKey == <<LBrace, StrTok("utm"), Colon, StrTok("ad"), Comma,
                  StrTok("name"), Colon, NullTok, Comma,
                  StrTok("email"), Colon, TrueTok, Comma,
                  StrTok("phone"), Colon, NumTok("42", 2), RBrace>>
TextBigPhone == <<LBrace, StrTok("phone"), Colon,
                  NumTok("99999999999999999999", 20), RBrace>>
TextListEmail == <<LBrace, StrTok("email"), Colon,
                   LBrack, StrTok("a"), RBrack, RBrace>>

Texts == {TextEmpty, TextNotJson, TextTruncated, TextExtraData, TextArray,
          TextNull, TextJo, TextExtraKey, TextBigPhone, TextListEmail}

\* an update of the bot framework: message is whether update.message is
\* set, has_text whether message.text is set, command the bot command the
\* text starts with ("" for none), callback the callback_query data
Upd(type, message, has_text, text, command, callback) ==
    [type |-> type, message |-> message, has_text |-> has_text,
     text |-> text, command |-> command, callback |-> callback]
TextMessage(text) == Upd("message", TRUE, TRUE, text, "", "")
PhotoMessage == Upd("message", TRUE, FALSE, <<>>, "", "")
EditedMessage(text) == Upd("edited_message", FALSE, FALSE, text, "", "")
Command(name) == Upd("message", TRUE, TRUE, <<BareTok(name)>>, name, "")
CallbackQuery(cb) == Upd("callback_query", FALSE, FALSE, <<>>, "", cb)
NoUpdate == Upd("", FALSE, FALSE, <<>>, "", "")

Updates ==
    {TextMessage(text) : text \in Texts}
    \cup {PhotoMessage, EditedMessage(TextJo)}
    \cup {Command(name) : name \in {"start", "help", "analytics"}}
    \cup {CallbackQuery(cb) : cb \in {"get_updates", "learn_more", "other"}}

\* faults of the storage engine during one storage operation: none, the
\* file cannot be opened, the statement cannot be prepared, the statement
\* fails when stepped, the commit fails
Faults == {"none", "connect", "prepare", "step", "commit"}

\* init_db faults: CREATE TABLE takes effect when executed, so a fault is
\* one of connect, prepare and step; each propagates out of init_db
InitDbFaults == Faults \ {"commit"}

\* ------------------------------------------------------------ the texts
NoValidMessage == "No valid message received."
InvalidFormat == "Invalid data format received. Please submit valid JSON."
ThankYou == "Thank you for your submission!"
GenericError == "An error occurred while processing your request."
NotificationHeader == "*New Form Submission!*"
Welcome == "Welcome! I am Anna Ena's notification bot. How can I help you?"
HelpText == "I can provide updates and information about Anna Ena's English courses. Use /start to see available options."
TotalSubmissions == "Total submissions: "
GetUpdatesText == "You'll receive updates about new courses and enrollment opportunities."
LearnMoreText == "Visit [Anna Ena's Website](https://www.annaena.com) to learn more about her English courses."

\* -------------------------------------------------------------- the state
VARIABLES
    env,          \* the required settings present in the environment
    phase,        \* "startup", "exited", "crashed", "serving"
    exit_status,  \* status of exit(), -1 while the process has not exited
    startup_fault, \* the storage engine's fault during this run's init_db
    restarted,    \* whether the process ran before on this submissions.db
    tableExists,  \* whether submissions.db holds the submissions table
    table,        \* the rows of the submissions table, in insertion order
    committed,    \* number of inserts that were committed
    nEvents,      \* updates delivered so far
    pc,           \* per task: the handler and the await it is suspended at
    update,       \* per task: the update being handled
    data,         \* per task: webhook_handler's data
    parsed_data,  \* per task: webhook_handler's parsed_data
    calls,        \* per task: the calls made for the update, in order
    conn          \* per owner: the connection its storage operation opened

vars == <<env, phase, exit_status, startup_fault, restarted, tableExists,
          table, committed, nEvents, pc, update, data, parsed_data, calls,
          conn>>
procVars == <<env, phase, exit_status, startup_fault, restarted, tableExists>>
storeVars == <<table, committed>>
localVars == <<data, parsed_data>>

\* the owners of a connection: main (0) and the handler tasks.  conn is
\* "none" when the owner has no connection (none opened, or the name conn
\* unbound), "open" while it is open, "closed" once conn.close() ran
Owners == {0} \cup Tasks
NoConns == [o \in Owners |-> "none"]

RequiredVars == {"TELEGRAM_BOT_TOKEN", "ANNA_TELEGRAM_CHAT_ID", "WEBHOOK_URL"}
SenderChat == "sender-chat"
ANNA_TELEGRAM_CHAT_ID ==
    IF "ANNA_TELEGRAM_CHAT_ID" \in env THEN "anna-chat" ELSE "None"

\* one entry of a task's call log
Call(op, to, text, n, body, res) ==
    [op |-> op, to |-> to, text |-> text, n |-> n, body |-> body, res |-> res]
Reply(text) == Call("reply_text", SenderChat, text, 0, <<>>, "pending")
Issue(t, call) == calls' = [calls EXCEPT ![t] = Append(@, call)]
\* the pending call of task t returns (res "ok") or raises (res "fail")
Resolve(log, res) == [log EXCEPT ![Len(log)].res = res]
Outcome(ok) == IF ok THEN "ok" ELSE "fail"

Init ==
    /\ env \in SUBSET RequiredVars
    /\ phase = "startup"
    /\ exit_status = -1
    /\ startup_fault \in InitDbFaults
    /\ restarted = FALSE
    /\ tableExists \in BOOLEAN
    /\ table = <<>>
    /\ committed = 0
    /\ nEvents = 0
    /\ pc = [t \in Tasks |-> "idle"]
    /\ update = [t \in Tasks |-> NoUpdate]
    /\ data = [t \in Tasks |-> PyNone]
    /\ parsed_data = [t \in Tasks |-> <<>>]
    /\ calls = [t \in Tasks |-> <<>>]
    /\ conn = NoConns

\* ------------------------------------------------------------- the store
\* digits of the largest SQLite INTEGER, 2^63 - 1; the number literals of
\* the inputs have fewer digits (they fit) or more (they do not)
MaxInt64Digits == 19

\* binding one parameter of the INSERT: "" when the value binds, else the
\* exception the sqlite3 module raises for it
BindError(v) ==
    CASE v.t \in {"list", "dict"} -> "ProgrammingError"
      [] v.t = "int" /\ v.d > MaxInt64Digits -> "OverflowError"
      [] OTHER -> ""

\* the parameters are bound in the order of the tuple of line 64
RECURSIVE FirstBindError(_, _)
FirstBindError(parsed, i) ==
    IF i > Len(fields) THEN ""
    ELSE IF BindError(parsed[fields[i]]) # "" THEN BindError(parsed[fields[i]])
    ELSE FirstBindError(parsed, i + 1)

\* the exception raised inside the try block of store_submission ("" for
\* none): connect, then execute (prepare, bind, step), then commit
StoreFailure(parsed, fault) ==
    CASE fault \in {"connect", "prepare"} -> "OperationalError"
      [] FirstBindError(parsed, 1) # "" -> FirstBindError(parsed, 1)
      [] fault \in {"step", "commit"} -> "OperationalError"
      [] OTHER -> ""

\* (variant: `except sqlite3.IntegrityError`, a narrower except clause)
CaughtIntegrityOnly(exc) == exc = "IntegrityError"

\* the statement of the try block that raises: 1 the connect (line 61),
\* 2 the execute (lines 63-64), 3 the commit (line 65), 0 for none
StoreFailStep(parsed, fault) ==
    CASE fault = "connect" -> 1
      [] fault = "prepare" \/ FirstBindError(parsed, 1) # "" \/ fault = "step" -> 2
      [] fault = "commit" -> 3
      [] OTHER -> 0

\* except sqlite3.Error
SqliteErrors == {"OperationalError", "ProgrammingError", "IntegrityError"}
Caught(exc) == exc \in SqliteErrors

\* finally: conn.close(); conn is unbound when connect itself raised
FinallyClose(fault, pending) ==
    IF fault = "connect" THEN "UnboundLocalError" ELSE pending

\* the value a TEXT column holds for a bound Python value
Stored(v) ==
    CASE v.t = "NoneType" -> [t |-> "NULL", s |-> ""]
      [] v.t = "bool" -> [t |-> "TEXT", s |-> "1"]
      [] OTHER -> [t |-> "TEXT", s |-> v.s]

\* id INTEGER PRIMARY KEY: one more than the largest id in the table
NextId(tbl) == IF tbl = <<>> THEN 1 ELSE tbl[Len(tbl)].id + 1

Row(id, parsed) ==
    [id |-> id, name |-> Stored(parsed["name"]),
     email |-> Stored(parsed["email"]), phone |-> Stored(parsed["phone"]),
     course_interest |-> Stored(parsed["course_interest"])]

\* (variant: INSERT OR REPLACE on a fixed id, which overwrites the row)
InsertOrReplaceRow(tbl, parsed) == <<Row(1, parsed)>>

InsertRow(tbl, parsed) == Append(tbl, Row(NextId(tbl), parsed))

\* lines 61 and 69: the connection when store_submission is left; the
\* finally block closes it on every path on which connect returned one
StoreConn(fault) == IF fault = "connect" THEN "none" ELSE "closed"

\* lines 51-56 and 95-99, without a finally block: conn.close() is the
\* last statement and is not reached when a statement before it raises
ConnAfter(fault) ==
    CASE fault = "connect" -> "none"
      [] fault = "none" -> "closed"
      [] OTHER -> "open"

\* store_submission(data): the exception it raises to its caller ("" when
\* it returns), the table it leaves, whether it logged an error, the
\* connection it leaves
store_submission(tbl, parsed, fault) ==
    LET exc == StoreFailure(parsed, fault)
    IN [raised |-> FinallyClose(fault, IF Caught(exc) THEN "" ELSE exc),
        table |-> IF exc = "" THEN InsertRow(tbl, parsed) ELSE tbl,
        logged |-> Caught(exc),
        conn |-> StoreConn(fault)]

\* (variant: SELECT MAX(id) + 1, one more than the number of rows)
CountRowsPlusOne(tbl) == Len(tbl) + 1

\* SELECT COUNT(*) FROM submissions
CountRows(tbl) == Len(tbl)

\* ------------------------------------------------------- the notification
Capitalize ==
    [name |-> "Name", email |-> "Email", phone |-> "Phone",
     course_interest |-> "Course_interest"]

\* str(value), as the f-string of line 153 formats it
Format(v) == v.s

\* one line "*Label:* value" per item of parsed_data, in insertion order
FormatNotification(parsed) ==
    [i \in 1..Len(fields) |->
        [label |-> Capitalize[fields[i]], value |-> Format(parsed[fields[i]])]]

Notification(parsed) ==
    Call("send_message", ANNA_TELEGRAM_CHAT_ID, NotificationHeader, 0,
         FormatNotification(parsed), "pending")

\* ---------------------------------------------------------------- startup
\* (variant: CREATE TABLE without IF NOT EXISTS, an error on an existing
\* table)
CreateTable(exists, tbl) ==
    [raised |-> IF exists THEN "OperationalError" ELSE "",
     exists |-> TRUE, table |-> tbl, conn |-> "closed"]

\* lines 53-54: CREATE TABLE IF NOT EXISTS creates the table when it is
\* absent and does nothing to an existing table and its rows
CreateTableIfNotExists(exists, tbl) ==
    [raised |-> "", exists |-> TRUE, table |-> tbl, conn |-> "closed"]

\* init_db(): the exception it raises ("" when it returns), the store and
\* the connection it leaves
init_db(exists, tbl, fault) ==
    IF fault # "none"
    THEN [raised |-> "OperationalError", exists |-> exists, table |-> tbl,
          conn |-> ConnAfter(fault)]
    ELSE CreateTableIfNotExists(exists, tbl)

\* (variant: only the bot token is checked before the exit)
missing_vars_token_only == {"TELEGRAM_BOT_TOKEN"} \ env

\* lines 191-197: the required settings that os.getenv gave None for
missing_vars == RequiredVars \ env

main ==
    /\ phase = "startup"
    /\ IF missing_vars # {}
       THEN /\ phase' = "exited"
            /\ exit_status' = 1
            /\ UNCHANGED <<tableExists, table, conn>>
       ELSE LET db == init_db(tableExists, table, startup_fault)
            IN /\ tableExists' = db.exists
               /\ table' = db.table
               /\ conn' = [conn EXCEPT ![0] = db.conn]
               /\ IF db.raised = ""
                  THEN phase' = "serving" /\ UNCHANGED exit_status
                  ELSE phase' = "crashed" /\ exit_status' = 1
    /\ UNCHANGED <<env, startup_fault, restarted, committed, nEvents, pc,
                   update, localVars, calls>>

\* lines 225-226: the process, ended or terminated from outside, is run
\* again on the same submissions.db; the handlers in flight are gone
ProcessStart ==
    /\ phase # "startup"
    /\ phase' = "startup"
    /\ exit_status' = -1
    /\ startup_fault' \in InitDbFaults
    /\ restarted' = TRUE
    /\ pc' = [t \in Tasks |-> "idle"]
    /\ update' = [t \in Tasks |-> NoUpdate]
    /\ data' = [t \in Tasks |-> PyNone]
    /\ parsed_data' = [t \in Tasks |-> <<>>]
    /\ calls' = [t \in Tasks |-> <<>>]
    /\ conn' = NoConns
    /\ UNCHANGED <<env, tableExists, storeVars, nEvents>>

\* the handler the application dispatches an update to (lines 209-213)
Route(u) ==
    CASE u.type = "callback_query" -> "button"
      [] u.command = "start" -> "start"
      [] u.command = "help" -> "help_command"
      [] u.command = "analytics" -> "analytics"
      [] OTHER -> "webhook_handler"

\* the framework delivers an update; the lowest free task takes it
Deliver(t, u) ==
    /\ phase = "serving"
    /\ nEvents < MaxEvents
    /\ pc[t] = "idle"
    /\ \A o \in Tasks : o < t => pc[o] # "idle"
    /\ nEvents' = nEvents + 1
    /\ pc' = [pc EXCEPT ![t] = Route(u)]
    /\ update' = [update EXCEPT ![t] = u]
    /\ UNCHANGED <<procVars, storeVars, localVars, calls, conn>>

\* ------------------------------------------------------- webhook_handler
\* (variant: `not message.text`, which also takes the empty string as absent)
TextAbsentOrEmpty(u) == ~u.message \/ ~u.has_text \/ u.text = <<>>

\* line 136: message is None or message.text is None
TextAbsent(u) == ~u.message \/ ~u.has_text

\* a handler segment ends at [pc, calls]: where the task is suspended (or
\* how it ended) and its call log
Seg(p, log) == [pc |-> p, calls |-> log]

\* lines 165-167, the except block: reply the generic error; evaluating
\* update.message.reply_text on an update without message raises
\* AttributeError out of the handler
ExceptBlock(u, log) ==
    IF u.message THEN Seg("await_error_reply", Append(log, Reply(GenericError)))
    ELSE Seg("raised", log)

\* lines 136-139: the reply of the absent-text branch is made through
\* update.message, which raises AttributeError inside the try block when
\* the update has no message
NoTextBranch(u, log) ==
    IF u.message THEN Seg("await_reject_reply", Append(log, Reply(NoValidMessage)))
    ELSE ExceptBlock(u, log)

\* (variant: the notification is sent first and the store is left out)
PipelineSendFirst(u, log, tbl, d, fault) ==
    IF ~HasGet(d)
    THEN ExceptBlock(u, log) @@
         [parsed_data |-> <<>>, table |-> tbl, committed |-> 0,
          conn |-> "none"]
    ELSE Seg("await_send_message",
             Append(log, Notification(parse_form_data(d)))) @@
         [parsed_data |-> parse_form_data(d), table |-> tbl, committed |-> 0,
          conn |-> "none"]

\* lines 148-159: parse, store, format and send, for decoded data d
Pipeline(u, log, tbl, d, fault) ==
    IF ~HasGet(d)
    THEN ExceptBlock(u, log) @@
         [parsed_data |-> <<>>, table |-> tbl, committed |-> 0,
          conn |-> "none"]
    ELSE LET parsed == parse_form_data(d)
             st == store_submission(tbl, parsed, fault)
             res == IF st.raised # "" THEN "raised"
                    ELSE IF st.logged THEN "logged" ELSE "ok"
             log2 == Append(log, Call("store_submission", "db",
                                     StoreFailure(parsed, fault),
                                     StoreFailStep(parsed, fault), <<>>, res))
         IN (IF st.raised # "" THEN ExceptBlock(u, log2)
             ELSE Seg("await_send_message", Append(log2, Notification(parsed))))
            @@ [parsed_data |-> parsed, table |-> st.table,
                committed |-> IF StoreFailure(parsed, fault) = "" THEN 1 ELSE 0,
                conn |-> st.conn]

\* lines 131-159: from the start of the handler to its first await
webhook_handler(t) ==
    /\ pc[t] = "webhook_handler"
    /\ LET u == update[t]
           dec == JsonLoads(u.text)
       IN IF TextAbsent(u)
          THEN /\ pc' = [pc EXCEPT ![t] = NoTextBranch(u, calls[t]).pc]
               /\ calls' = [calls EXCEPT ![t] = NoTextBranch(u, calls[t]).calls]
               /\ UNCHANGED <<storeVars, localVars, conn>>
          ELSE IF ~dec.ok
          THEN /\ pc' = [pc EXCEPT ![t] = "await_reject_reply"]
               /\ Issue(t, Reply(InvalidFormat))
               /\ UNCHANGED <<storeVars, localVars, conn>>
          ELSE \E fault \in Faults :
                 LET r == Pipeline(u, calls[t], table, dec.v, fault)
                 IN /\ pc' = [pc EXCEPT ![t] = r.pc]
                    /\ calls' = [calls EXCEPT ![t] = r.calls]
                    /\ data' = [data EXCEPT ![t] = dec.v]
                    /\ parsed_data' = [parsed_data EXCEPT ![t] = r.parsed_data]
                    /\ table' = r.table
                    /\ committed' = committed + r.committed
                    /\ conn' = [conn EXCEPT ![t] = r.conn]
    /\ UNCHANGED <<procVars, nEvents, update>>

\* lines 138-139 and 145-146: the reply returned and the handler returns,
\* or the reply raised inside the try block
RejectReplyReturned(u, log, ok) ==
    IF ok THEN Seg("done", Resolve(log, "ok"))
    ELSE ExceptBlock(u, Resolve(log, "fail"))

\* (variant: the send is wrapped so that its failure is only logged and the
\* confirmation is replied all the same)
SendMessageReturnedAckAlways(u, log, ok) ==
    Seg("await_ack_reply",
        Append(Resolve(log, Outcome(ok)), Reply(ThankYou)))

\* lines 155-161: send_message returned and the confirmation is replied,
\* or it raised inside the try block
SendMessageReturned(u, log, ok) ==
    IF ok THEN Seg("await_ack_reply", Append(Resolve(log, "ok"), Reply(ThankYou)))
    ELSE ExceptBlock(u, Resolve(log, "fail"))

\* lines 161-163
AckReplyReturned(u, log, ok) ==
    IF ok THEN Seg("done", Resolve(log, "ok"))
    ELSE ExceptBlock(u, Resolve(log, "fail"))

\* line 167: the reply of the except block returned, or it raised out of
\* the handler
ErrorReplyReturned(u, log, ok) ==
    IF ok THEN Seg("done", Resolve(log, "ok"))
    ELSE Seg("raised", Resolve(log, "fail"))

\* task t resumes from its await with segment result r
Resume(t, r) ==
    /\ pc' = [pc EXCEPT ![t] = r.pc]
    /\ calls' = [calls EXCEPT ![t] = r.calls]
    /\ UNCHANGED <<procVars, storeVars, nEvents, update, localVars, conn>>

RejectReplyReturns(t) ==
    /\ pc[t] = "await_reject_reply"
    /\ \E ok \in BOOLEAN : Resume(t, RejectReplyReturned(update[t], calls[t], ok))

SendMessageReturns(t) ==
    /\ pc[t] = "await_send_message"
    /\ \E ok \in BOOLEAN : Resume(t, SendMessageReturned(update[t], calls[t], ok))

AckReplyReturns(t) ==
    /\ pc[t] = "await_ack_reply"
    /\ \E ok \in BOOLEAN : Resume(t, AckReplyReturned(update[t], calls[t], ok))

ErrorReplyReturns(t) ==
    /\ pc[t] = "await_error_reply"
    /\ \E ok \in BOOLEAN : Resume(t, ErrorReplyReturned(update[t], calls[t], ok))

\* ------------------------------------------------ commands and the button
\* a command handler has no try block: a reply that raises ends it
CommandReplyReturned(log, ok) ==
    IF ok THEN Seg("done", Resolve(log, "ok"))
    ELSE Seg("raised", Resolve(log, "fail"))

start(t) ==
    /\ pc[t] = "start"
    /\ Resume(t, Seg("await_command_reply", Append(calls[t], Reply(Welcome))))

help_command(t) ==
    /\ pc[t] = "help_command"
    /\ Resume(t, Seg("await_command_reply", Append(calls[t], Reply(HelpText))))

AnalyticsFaults == Faults \ {"commit"}

\* (variant: the count is sent to the fixed recipient, not replied)
AnalyticsToRecipient(log, tbl, fault) ==
    [pc |-> "await_command_reply",
     calls |-> Append(log, Call("send_message", ANNA_TELEGRAM_CHAT_ID,
                                TotalSubmissions, CountRows(tbl), <<>>,
                                "pending")),
     conn |-> "closed"]

\* lines 95-100: a fault of the connect or of the SELECT raises out of the
\* handler before any reply
Analytics(log, tbl, fault) ==
    (IF fault # "none" THEN Seg("raised", log)
     ELSE Seg("await_command_reply",
              Append(log, Call("reply_text", SenderChat, TotalSubmissions,
                               CountRows(tbl), <<>>, "pending"))))
    @@ [conn |-> ConnAfter(fault)]

analytics(t) ==
    /\ pc[t] = "analytics"
    /\ \E fault \in AnalyticsFaults :
          LET r == Analytics(calls[t], table, fault)
          IN /\ pc' = [pc EXCEPT ![t] = r.pc]
             /\ calls' = [calls EXCEPT ![t] = r.calls]
             /\ conn' = [conn EXCEPT ![t] = r.conn]
    /\ UNCHANGED <<procVars, storeVars, nEvents, update, localVars>>

CommandReplyReturns(t) ==
    /\ pc[t] = "await_command_reply"
    /\ \E ok \in BOOLEAN : Resume(t, CommandReplyReturned(calls[t], ok))

button(t) ==
    /\ pc[t] = "button"
    /\ Resume(t, Seg("await_answer",
                     Append(calls[t], Call("answer", SenderChat, "", 0, <<>>, "pending"))))

\* lines 110-120
AnswerReturned(u, log, ok) ==
    IF ~ok THEN Seg("raised", Resolve(log, "fail"))
    ELSE IF u.callback = "get_updates"
    THEN Seg("await_edit", Append(Resolve(log, "ok"),
             Call("edit_message_text", SenderChat, GetUpdatesText, 0, <<>>, "pending")))
    ELSE IF u.callback = "learn_more"
    THEN Seg("await_edit", Append(Resolve(log, "ok"),
             Call("edit_message_text", SenderChat, LearnMoreText, 0, <<>>, "pending")))
    ELSE Seg("done", Resolve(log, "ok"))

AnswerReturns(t) ==
    /\ pc[t] = "await_answer"
    /\ \E ok \in BOOLEAN : Resume(t, AnswerReturned(update[t], calls[t], ok))

EditReturns(t) ==
    /\ pc[t] = "await_edit"
    /\ \E ok \in BOOLEAN : Resume(t, CommandReplyReturned(calls[t], ok))

\* the task of a handled update ends, by returning ("done") or by raising
\* to the framework ("raised"), and its slot is free again; its frame and
\* the locals in it, conn among them, are released
TaskEnds(t) ==
    /\ pc[t] \in {"done", "raised"}
    /\ pc' = [pc EXCEPT ![t] = "idle"]
    /\ update' = [update EXCEPT ![t] = NoUpdate]
    /\ data' = [data EXCEPT ![t] = PyNone]
    /\ parsed_data' = [parsed_data EXCEPT ![t] = <<>>]
    /\ calls' = [calls EXCEPT ![t] = <<>>]
    /\ conn' = [conn EXCEPT ![t] = "none"]
    /\ UNCHANGED <<procVars, storeVars, nEvents>>

Next ==
    \/ main
    \/ ProcessStart
    \/ \E t \in Tasks, u \in Updates : Deliver(t, u)
    \/ \E t \in Tasks : webhook_handler(t)
    \/ \E t \in Tasks : RejectReplyReturns(t)
    \/ \E t \in Tasks : SendMessageReturns(t)
    \/ \E t \in Tasks : AckReplyReturns(t)
    \/ \E t \in Tasks : ErrorReplyReturns(t)
    \/ \E t \in Tasks : start(t)
    \/ \E t \in Tasks : help_command(t)
    \/ \E t \in Tasks : analytics(t)
    \/ \E t \in Tasks : CommandReplyReturns(t)
    \/ \E t \in Tasks : button(t)
    \/ \E t \in Tasks : AnswerReturns(t)
    \/ \E t \in Tasks : EditReturns(t)
    \/ \E t \in Tasks : TaskEnds(t)

Spec == Init /\ [][Next]_vars

\* ============================================================ properties
\* helpers over a task's call log
Idx(t) == 1..Len(calls[t])
IsStore(c) == c.op = "store_submission"
IsNotify(c) == c.op = "send_message" /\ c.to = ANNA_TELEGRAM_CHAT_ID
IsReplyOf(c, text) == c.op = "reply_text" /\ c.to = SenderChat /\ c.text = text
\* task t handles its update in webhook_handler and has run its first segment
InWebhook(t) == Route(update[t]) = "webhook_handler" /\ update[t].type # ""
Started(t) == InWebhook(t) /\ pc[t] # "webhook_handler"
Ended(t) == pc[t] \in {"done", "raised"}
HasMessageText(t) == update[t].message /\ update[t].has_text

C1_Case(t) ==
    Started(t) /\ HasMessageText(t) /\ ~JsonLoads(update[t].text).ok
\* C1: an event whose message text is not valid JSON gets the reply
\* "Invalid data format received. Please submit valid JSON." as the first
\* and only call besides a generic error reply, with no store_submission
\* call and no send_message to the fixed recipient.
C1_InvalidJsonRejected ==
    \A t \in Tasks : C1_Case(t) =>
        /\ calls[t] # <<>>
        /\ IsReplyOf(calls[t][1], InvalidFormat)
        /\ \A i \in Idx(t) : ~IsStore(calls[t][i]) /\ ~IsNotify(calls[t][i])
        /\ \A i \in Idx(t) : i > 1 /\ calls[t][i].op = "reply_text"
                                => calls[t][i].text = GenericError
C1_Witness ==
    \E t \in Tasks : /\ C1_Case(t)
                     /\ update[t].text = TextNotJson
                     /\ pc[t] = "done"
                     /\ calls[t][1].res = "ok"
                     /\ table = <<>>

C2_Case(t) ==
    Started(t) /\ (~update[t].message \/ ~update[t].has_text
                   \/ update[t].text = <<>>)
\* C2: an event with empty or absent text (no message, no text, or the
\* empty string) gets the reply "No valid message received." and makes no
\* storage call and no notification call.
C2_AbsentTextRejected ==
    \A t \in Tasks : C2_Case(t) =>
        /\ calls[t] # <<>>
        /\ IsReplyOf(calls[t][1], NoValidMessage)
        /\ \A i \in Idx(t) : ~IsStore(calls[t][i]) /\ ~IsNotify(calls[t][i])

C3_Case(t) ==
    /\ Started(t)
    /\ data[t].t = "dict"
    /\ calls[t] # <<>>
    /\ IsStore(calls[t][1])
    /\ calls[t][1].text \in SqliteErrors
    /\ calls[t][1].n = 2
\* C3: when the storage engine raises on the insert, store_submission logs
\* the error and returns, the notification to the fixed recipient is sent
\* next, the confirmation follows a successful send, and a generic error
\* reply appears only after a failed Telegram call.
C3_StorageFailureNotFatal ==
    \A t \in Tasks : C3_Case(t) =>
        /\ calls[t][1].res = "logged"
        /\ Len(calls[t]) >= 2
        /\ IsNotify(calls[t][2])
        /\ calls[t][2].res = "ok" =>
              Len(calls[t]) >= 3 /\ IsReplyOf(calls[t][3], ThankYou)
        /\ \A i \in Idx(t) : IsReplyOf(calls[t][i], GenericError) =>
              \E j \in 2..(i - 1) : calls[t][j].res = "fail"
C3_Witness ==
    \E t \in Tasks : /\ C3_Case(t)
                     /\ update[t].text = TextListEmail
                     /\ pc[t] = "done"
                     /\ Len(calls[t]) = 3
                     /\ calls[t][2].res = "ok"
                     /\ IsReplyOf(calls[t][3], ThankYou)
                     /\ calls[t][3].res = "ok"
                     /\ table = <<>>

\* C4: store_submission never propagates an exception to its caller,
\* whichever step of the storage operation fails.
C4_StoreNeverRaises ==
    \A t \in Tasks : \A i \in Idx(t) :
        IsStore(calls[t][i]) => calls[t][i].res # "raised"

\* C5: whatever raises inside webhook_handler, the handler attempts the
\* generic error reply and ends without raising to its caller.
C5_HandlerNeverRaises ==
    \A t \in Tasks : InWebhook(t) =>
        pc[t] # "raised"

C6_Case(t, i) == IsNotify(calls[t][i]) /\ calls[t][i].res = "fail"
\* C6: when send_message to the fixed recipient fails, the generic error
\* reply to the sender is the next call, the confirmation is never
\* replied, and there is no second send to the fixed recipient.
C6_NotificationFailure ==
    \A t \in Tasks : \A i \in Idx(t) : C6_Case(t, i) =>
        /\ Len(calls[t]) > i
        /\ IsReplyOf(calls[t][i + 1], GenericError)
        /\ \A j \in Idx(t) : ~IsReplyOf(calls[t][j], ThankYou)
        /\ Cardinality({j \in Idx(t) : IsNotify(calls[t][j])}) = 1
C6_Witness ==
    \E t \in Tasks : /\ pc[t] = "done"
                     /\ Len(calls[t]) = 3
                     /\ calls[t][1].res = "ok"
                     /\ C6_Case(t, 2)
                     /\ IsReplyOf(calls[t][3], GenericError)
                     /\ calls[t][3].res = "ok"

C7_Case(t) == Started(t) /\ data[t].t = "dict"
\* C7: for a JSON object, parse_form_data returns a mapping whose keys are
\* exactly name, email, phone, course_interest, with the input's value for
\* a present key and "Not provided" for an absent one; extra keys are
\* dropped and the decoded input is left as it was.
C7_ParseFormData ==
    \A t \in Tasks : C7_Case(t) =>
        /\ DOMAIN parsed_data[t] = {"name", "email", "phone", "course_interest"}
        /\ \A f \in {"name", "email", "phone", "course_interest"} :
              parsed_data[t][f] = IF f \in DOMAIN data[t].m THEN data[t].m[f]
                                  ELSE PyStr("Not provided")
        /\ data[t] = JsonLoads(update[t].text).v
C7_Witness ==
    \E t \in Tasks :
        /\ C7_Case(t)
        /\ update[t].text = TextExtraKey
        /\ DOMAIN data[t].m = {"utm", "name", "email", "phone"}
        /\ parsed_data[t] = [name |-> PyNone,
                             email |-> PyTrue,
                             phone |-> PyInt("42", 2),
                             course_interest |-> PyStr("Not provided")]

C8_Case(t) ==
    Started(t) /\ HasMessageText(t) /\ JsonLoads(update[t].text).ok /\ Ended(t)
\* C8: an event whose text decodes as JSON makes exactly one
\* store_submission call and exactly one send to the fixed recipient, and
\* every notification goes to the fixed recipient.
C8_ExactlyOnce ==
    \A t \in Tasks : C8_Case(t) =>
        /\ Cardinality({i \in Idx(t) : IsStore(calls[t][i])}) = 1
        /\ Cardinality({i \in Idx(t) : IsNotify(calls[t][i])}) = 1
        /\ \A i \in Idx(t) : calls[t][i].text = NotificationHeader
                                => IsNotify(calls[t][i])

AnalyticsReads(t) == pc[t] = "analytics" /\ pc'[t] = "await_command_reply"
WebhookRuns(t) == pc[t] = "webhook_handler" /\ pc'[t] # "webhook_handler"
StoredOk(t) ==
    /\ JsonLoads(update[t].text).ok
    /\ JsonLoads(update[t].text).v.t = "dict"
    /\ \E i \in 1..Len(calls'[t]) :
          IsStore(calls'[t][i]) /\ calls'[t][i].res = "ok"
\* C10: the submissions table is append-only: a step adds at most one row
\* at the end and changes no existing row; a row is added exactly by the
\* webhook_handler step of an event that decoded to a JSON object and
\* whose store_submission stored without failure, and by no other step.
C10_AppendOnly ==
    [][/\ Len(table') >= Len(table)
       /\ SubSeq(table', 1, Len(table)) = table
       /\ \A t \in Tasks : WebhookRuns(t) =>
             Len(table') = Len(table) + (IF StoredOk(t) THEN 1 ELSE 0)
       /\ (\A t \in Tasks : ~WebhookRuns(t)) => table' = table
       /\ \A i \in 1..Len(table') : table'[i].id = i]_vars
C10_Witness ==
    /\ Len(table) = 2
    /\ table[1].id = 1
    /\ table[2].id = 2
    /\ table[1].name = [t |-> "TEXT", s |-> "Jo"]
    /\ table[2].name = [t |-> "NULL", s |-> ""]

\* C11: when a required setting is missing, the process never leaves
\* startup except by exit(1): main exits with status 1 with the table as it
\* was (init_db not run), it never serves (no handler runs, no update is
\* handled, nothing is stored or sent); when all three settings are present
\* main never takes the exit path.
C11_MissingSettingsExit ==
    /\ [](RequiredVars \ env # {} =>
            /\ phase \in {"startup", "exited"}
            /\ phase = "exited" => exit_status = 1
            /\ nEvents = 0
            /\ table = <<>>
            /\ \A t \in Tasks : pc[t] = "idle" /\ calls[t] = <<>>)
    /\ [](env = RequiredVars => phase # "exited")
    /\ [][phase = "startup" /\ RequiredVars \ env # {} =>
            /\ phase' = "exited"
            /\ exit_status' = 1
            /\ tableExists' = tableExists]_vars
C11_Witness ==
    /\ env = {"TELEGRAM_BOT_TOKEN", "WEBHOOK_URL"}
    /\ phase = "exited"
    /\ exit_status = 1
    /\ ~tableExists
    /\ nEvents = 0

\* str() of the value a SELECT reads back from a cell
RowText(cell) == IF cell.t = "NULL" THEN "None" ELSE cell.s
C12_Case(t) ==
    /\ Started(t)
    /\ data[t].t = "dict"
    /\ Len(calls[t]) >= 2
    /\ IsStore(calls[t][1]) /\ calls[t][1].res = "ok"
    /\ IsNotify(calls[t][2]) /\ calls[t][2].res = "ok"
\* C12: for a JSON object stored and notified without failure, the table
\* holds a row whose four fields read as the parser output, and the
\* notification is the header followed by exactly four labelled lines, in
\* the order name, email, phone, course_interest, each with the value of
\* that row.
C12_RowAndMessageAgree ==
    \A t \in Tasks : C12_Case(t) =>
        \E r \in 1..Len(table) :
            /\ \A f \in {"name", "email", "phone", "course_interest"} :
                  RowText(table[r][f]) = parsed_data[t][f].s
            /\ calls[t][2].text = NotificationHeader
            /\ Len(calls[t][2].body) = 4
            /\ \A i \in 1..4 :
                  /\ calls[t][2].body[i].label =
                        <<"Name", "Email", "Phone", "Course_interest">>[i]
                  /\ calls[t][2].body[i].value =
                        RowText(table[r][<<"name", "email", "phone",
                                           "course_interest">>[i]])

\* main runs init_db: every required setting is present
InitDbRuns == phase = "startup" /\ phase' # "startup" /\ env = RequiredVars
\* C13: init_db, run at every process start, whether the table is absent,
\* empty or holds rows, does not raise unless the storage engine faults,
\* leaves the submissions table existing and every row unchanged, and on a
\* store that has the table (a second call) changes nothing.
C13_InitDbIdempotent ==
    [][InitDbRuns =>
          /\ startup_fault = "none" => phase' = "serving" /\ tableExists'
          /\ table' = table
          /\ committed' = committed
          /\ tableExists => tableExists']_vars
\* a second run of the process has initialised a store that holds a row
C13_Witness ==
    /\ restarted
    /\ phase = "serving"
    /\ tableExists
    /\ Len(table) = 1
    /\ table[1].name = [t |-> "TEXT", s |-> "Jo"]

\* a step of the handler of a command or of a button press
CommandPcs == {"start", "help_command", "analytics", "await_command_reply",
               "button", "await_answer", "await_edit"}
CommandStep(t) == pc[t] \in CommandPcs /\ pc'[t] # pc[t]
\* C14: no step of the /start, /help, /analytics and button handlers
\* changes the submissions table, none of their calls is a storage write
\* or a message to the fixed recipient (every call goes to the sender),
\* and the number replied by /analytics is the row count of the table when
\* the handler read it.
C14_CommandsLeaveStore ==
    [][\A t \in Tasks : CommandStep(t) =>
          /\ table' = table
          /\ tableExists' = tableExists
          /\ committed' = committed
          /\ \A i \in 1..Len(calls'[t]) :
                /\ ~IsStore(calls'[t][i])
                /\ ~IsNotify(calls'[t][i])
                /\ calls'[t][i].to = SenderChat
          /\ pc[t] = "analytics" /\ calls'[t] # <<>> =>
                calls'[t][1].n = Len(table)]_vars
\* a button press handled to its end while the table holds a row
C14_Witness ==
    \E t \in Tasks :
        /\ update[t].callback = "learn_more"
        /\ pc[t] = "done"
        /\ Len(calls[t]) = 2
        /\ calls[t][2].op = "edit_message_text"
        /\ calls[t][2].res = "ok"
        /\ Len(table) = 1

\* C15: in the call log of one event the storage attempt comes after the
\* parse and before the notification, the notification before the
\* confirmation, and the confirmation "Thank you for your submission!" is
\* replied only after the notification send has returned successfully.
C15_PipelineOrder ==
    \A t \in Tasks : \A i \in Idx(t) :
        /\ IsStore(calls[t][i]) =>
              /\ DOMAIN parsed_data[t] = {"name", "email", "phone",
                                          "course_interest"}
              /\ \A j \in 1..(i - 1) : ~IsNotify(calls[t][j])
        /\ IsNotify(calls[t][i]) =>
              /\ \E j \in 1..(i - 1) : IsStore(calls[t][j])
              /\ \A j \in 1..(i - 1) : ~IsReplyOf(calls[t][j], ThankYou)
        /\ IsReplyOf(calls[t][i], ThankYou) =>
              \E j \in 1..(i - 1) :
                  IsNotify(calls[t][j]) /\ calls[t][j].res = "ok"
C15_Witness ==
    \E t \in Tasks :
        /\ update[t].text = TextJo
        /\ pc[t] = "done"
        /\ Len(calls[t]) = 3
        /\ IsStore(calls[t][1]) /\ calls[t][1].res = "ok"
        /\ IsNotify(calls[t][2]) /\ calls[t][2].res = "ok"
        /\ IsReplyOf(calls[t][3], ThankYou) /\ calls[t][3].res = "ok"

\* C16: every storage operation (init_db, store_submission, the count of
\* analytics) has closed the connection it opened when it returns or
\* raises: in no state between two steps, and so at no await of a
\* handler, does an owner hold an open connection.
C16_ConnectionsReleased ==
    \A o \in Owners : conn[o] # "open"

\* C17: every row of the submissions table has an identifier and a text
\* in each of name, email, phone and course_interest; no row holds a NULL.
C17_RowsFullyPopulated ==
    \A r \in 1..Len(table) :
        /\ table[r].id >= 1
        /\ \A f \in {"name", "email", "phone", "course_interest"} :
              table[r][f].t = "TEXT"

C18_Case(t) ==
    /\ Started(t)
    /\ HasMessageText(t)
    /\ JsonLoads(update[t].text).ok
    /\ JsonLoads(update[t].text).v.t # "dict"
\* C18: an event whose text is valid JSON but not an object makes no
\* store_submission call and no send to the fixed recipient; its only call
\* is the generic error reply to the sender, and the handler does not
\* raise.
C18_NonObjectJson ==
    \A t \in Tasks : C18_Case(t) =>
        /\ Len(calls[t]) = 1
        /\ IsReplyOf(calls[t][1], GenericError)
        /\ \A i \in Idx(t) : ~IsStore(calls[t][i]) /\ ~IsNotify(calls[t][i])
        /\ pc[t] # "raised"

====
